---- MODULE Spec2Model ----
(***************************************************************************)
(* Playbook execution engine of ambari-manager: the task dispatcher        *)
(* (ExecutePlaybook and the Execute...Task functions of playbook.go) and   *)
(* the concurrent remote executor (RunRemoteHostCommand of ssh.go).        *)
(*                                                                         *)
(* The dispatcher ranges over playbook.Tasks and only ever looks at the    *)
(* task of the current iteration, so the model draws each task when the    *)
(* loop reaches it; `tasks` is the prefix of the playbook read so far.     *)
(*                                                                         *)
(* Before the run, LoadPlaybookFile resolves the declared inputs of the    *)
(* playbook from the variables string, the defaults and the user.  The     *)
(* registry commands of registry.go work on the table of registered        *)
(* servers; each is a run of the program of its own (RegistrySpec).        *)
(***************************************************************************)
EXTENDS Integers, Sequences, FiniteSets

MaxTasks == 2
NumHosts == 2

\* Bounds of the loader: declared inputs of a playbook, and name=value
\* pairs of the variables string
MaxInputs == 2
MaxVars == 2

\* Bound of the registry: the ids an entry can be registered with
NumIds == 3
RegistryIds == 1..NumIds
Clusters == {"c1", "c2"}

Hosts == 1..NumHosts

\* Task type constants, playbook.go:27-40
RemoteCommand == "RemoteCommand"
LocalCommand == "LocalCommand"
Download == "Download"
Upload == "Upload"
Config == "Config"
AmbariCommand == "AmbariCommand"

\* A type string that is none of the six constants.
UnknownType == "Unknown"

\* task.Parameters == nil (the yaml key is absent)
NilParams == {"<nil>"}

\* Task struct, playbook.go:51-62.  Parameters is the key set of the map
\* (the checks of the executors only test presence), or NilParams.
Task(type, command, component, service, agent, params) ==
    [Type |-> type, Command |-> command, ComponentFilter |-> component,
     ServiceFilter |-> service, HostFilter |-> "", AmbariServerFilter |-> FALSE,
     AmbariAgentFilter |-> agent, Parameters |-> params]

\* Parameter maps tried for a task with required keys `req`: nil, empty,
\* complete, and complete but for one key.
ParamChoices(req) ==
    {NilParams, {}, req} \cup {req \ {k} : k \in req}

TaskSet ==
    {Task(RemoteCommand, "cmd", "C", "", FALSE, NilParams),
     Task(RemoteCommand, "cmd", "", "", TRUE, NilParams),
     Task(RemoteCommand, "cmd", "", "", FALSE, NilParams),
     Task(RemoteCommand, "", "C", "", FALSE, NilParams),
     Task(LocalCommand, "cmd", "", "", TRUE, NilParams),
     Task(LocalCommand, "", "", "", TRUE, NilParams),
     Task(LocalCommand, "cmd", "", "S", FALSE, NilParams),
     [Task(LocalCommand, "cmd", "C", "", FALSE, NilParams) EXCEPT !.AmbariServerFilter = TRUE],
     [Task(LocalCommand, "cmd", "", "", FALSE, NilParams) EXCEPT !.HostFilter = "host1"],
     Task("", "cmd", "", "", FALSE, NilParams),
     Task(UnknownType, "cmd", "", "", FALSE, NilParams)}
    \cup {Task(Upload, "", "C", "", FALSE, p) : p \in ParamChoices({"source", "target"})}
    \cup {Task(Download, "", "", "", TRUE, p) : p \in ParamChoices({"url", "file"})}
    \cup {Task(Config, "", "", "", TRUE, p) :
            p \in ParamChoices({"config_type", "config_key", "config_value"})}
    \cup {Task(AmbariCommand, c[1], c[2], c[3], TRUE, NilParams) :
            c \in {<<"", "C", "">>, <<"START", "", "">>, <<"START", "C", "">>,
                   <<"START", "", "S">>, <<"START", "C", "S">>}}

VARIABLES
    tasks,          \* playbook.Tasks read so far; the last one is the current task
    pc,             \* position of the control thread
    profile,        \* a.ConnectionProfile of the active registry entry
    filteredHosts,  \* filteredHosts of the current loop iteration
    hosts,          \* hosts of the current RunRemoteHostCommand call
    response,       \* response map of the current call: the hosts that have an entry
    wg,             \* counter of the call's sync.WaitGroup
    unit,           \* unit[i][h]: state of the goroutine of task i for host h
    panics,         \* tasks with a goroutine whose panic has not yet ended the process
    calls,          \* calls made by the control thread, in order
    exitMsg,        \* message printed before os.Exit(1)
    inputs,         \* playbookTempl.Inputs of the file LoadPlaybookFile reads
    varsInput,      \* the varsInput string of LoadPlaybookFile, as characters
    varInputMap,    \* varInputMap of LoadPlaybookFile
    registry        \* rows of the table ambari_registry, in insertion order

vars == <<tasks, pc, profile, filteredHosts, hosts, response, wg, unit,
          panics, calls, exitMsg, inputs, varsInput, varInputMap, registry>>

\* Locals of LoadPlaybookFile; ExecutePlaybook and what it calls have no
\* access to them.
LoadVars == <<inputs, varsInput, varInputMap>>

idx == Len(tasks)
task == tasks[idx]

Alive == pc \notin {"finished", "exited", "crashed"}

\* strings.Split(s, sep) for a one-character separator, on a string given
\* as its characters: the pieces between the separators, n + 1 of them for
\* n separators.
RECURSIVE Split(_, _)
Split(s, sep) ==
    IF s = <<>> THEN << <<>> >>
    ELSE LET rest == Split(Tail(s), sep)
         IN IF Head(s) = sep THEN << <<>> >> \o rest
            ELSE << <<Head(s)>> \o Head(rest) >> \o Tail(rest)

\* The Go string of a sequence of characters
RECURSIVE Str(_)
Str(cs) == IF cs = <<>> THEN "" ELSE Head(cs) \o Str(Tail(cs))

\* The pairs joined by single spaces, as on the command line
RECURSIVE Join(_)
Join(pairs) ==
    IF pairs = <<>> THEN <<>>
    ELSE IF Len(pairs) = 1 THEN pairs[1]
    ELSE pairs[1] \o <<" ">> \o Join(Tail(pairs))

SeqsUpTo(S, n) == UNION {[1..k -> S] : k \in 0..n}

\* Pieces of a variables string: well-formed pairs, a pair with an empty
\* value, a repeated name, a piece without "=" and an empty piece (two
\* spaces in a row).
PairSet ==
    {<<"A", "=", "s">>, <<"A", "=", "t">>, <<"B", "=", "s">>, <<"B", "=">>,
     <<"A">>, <<>>}

VarsInputSet == {Join(ps) : ps \in SeqsUpTo(PairSet, MaxVars)}

\* Input struct, playbook.go:65-68
Input(name, default) == [Name |-> name, Default |-> default]

InputSet == {Input(n, d) : n \in {"A", "B"}, d \in {"", "d"}}

\* What GetStringFlag returns for a prompt
Answers == {"typed"}

\* make(map[string]interface{})
EmptyMap == [k \in {} |-> ""]

\* m[k] = v on a Go map
MapPut(m, k, v) == [x \in DOMAIN m \cup {k} |-> IF x = k THEN v ELSE m[x]]

Init ==
    /\ tasks = <<>>
    /\ pc = "load"
    /\ inputs \in SeqsUpTo(InputSet, MaxInputs)
    /\ varsInput \in VarsInputSet
    /\ varInputMap = EmptyMap
    /\ registry = <<>>
    /\ profile \in {"", "profile1"}
    /\ filteredHosts = {}
    /\ hosts = {}
    /\ response = {}
    /\ wg = 0
    /\ unit = [i \in 1..MaxTasks |-> [h \in Hosts |-> "none"]]
    /\ panics = {}
    /\ calls = <<>>
    /\ exitMsg = ""

\* Filter value built by CreateFilter(service, component, hosts, server)
CreateFilter(service, component, hostList, server) ==
    [Service |-> service, Component |-> component, Hosts |-> hostList,
     Server |-> server]

\* Filter{} : the zero value, no targeting at all
EmptyFilter == CreateFilter("", "", "", FALSE)

\* The host sets a.GetFilteredHosts(filter) may return.  The cluster topology
\* is outside the program: a component or a service runs on any subset of
\* the cluster's hosts; without a filter the result is every host.
GetFilteredHosts(filter) ==
    IF filter.Server THEN {{1}}
    ELSE IF filter.Component # "" THEN SUBSET Hosts
    ELSE IF filter.Service # "" THEN SUBSET Hosts
    ELSE IF filter.Hosts # "" THEN {{1}}
    ELSE {Hosts}

\* One entry of the log of calls the control thread makes.
Call(i, op, filter, isService, isComponent) ==
    [task |-> i, op |-> op, filter |-> filter,
     isService |-> isService, isComponent |-> isComponent]

Plain(i, op) == Call(i, op, EmptyFilter, FALSE, FALSE)

\* fmt.Println(msg); os.Exit(1)
Exit(msg) ==
    /\ pc' = "exited"
    /\ exitMsg' = msg
    /\ filteredHosts' = filteredHosts

\* The executor returns and the loop iteration ends; its filteredHosts is gone.
Continue ==
    /\ pc' = "loop"
    /\ exitMsg' = exitMsg
    /\ filteredHosts' = {}

----
\* LoadPlaybookFile, playbook.go:71-111

\* The loop of createVarMap (playbook.go:282-285) over the pieces ss, from
\* map m: z[1] of a piece without "=" is an index out of range, a panic.
RECURSIVE PutPairs(_, _)
PutPairs(m, ss) ==
    IF ss = <<>> THEN [panic |-> FALSE, map |-> m]
    ELSE LET z == Split(Head(ss), "=")
         IN IF Len(z) < 2 THEN [panic |-> TRUE, map |-> m]
            ELSE PutPairs(MapPut(m, Str(z[1]), Str(z[2])), Tail(ss))

\* createVarMap, playbook.go:277-288
createVarMap(varMapStr) ==
    IF Len(varMapStr) > 0 THEN PutPairs(EmptyMap, Split(varMapStr, " "))
    ELSE [panic |-> FALSE, map |-> EmptyMap]

\* The loop body with the default looked at before the supplied value.
ResolveInput_DefaultFirst(m, input, answer) ==
    IF Len(input.Default) > 0 THEN MapPut(m, input.Name, input.Default)
    ELSE IF input.Name \in DOMAIN m THEN m
    ELSE MapPut(m, input.Name, answer)

\* The body of the loop over the inputs, playbook.go:85-96, on map m.
ResolveInput(m, input, answer) ==
    IF input.Name \in DOMAIN m THEN m
    ELSE IF Len(input.Default) = 0 THEN MapPut(m, input.Name, answer)
    ELSE MapPut(m, input.Name, input.Default)

\* The loop over playbookTempl.Inputs, playbook.go:83-98
RECURSIVE ResolveInputs(_, _, _)
ResolveInputs(m, ins, answer) ==
    IF ins = <<>> THEN m
    ELSE ResolveInputs(ResolveInput(m, Head(ins), answer), Tail(ins), answer)

\* LoadPlaybookFile: createVarMap panics, or the file cannot be read or
\* parsed and the process exits, or the inputs are resolved and the
\* playbook is returned.
LoadPlaybookFile ==
    /\ pc = "load"
    /\ LET r == createVarMap(varsInput)
       IN IF r.panic
          THEN /\ pc' = "crashed"
               /\ UNCHANGED <<varInputMap, exitMsg, filteredHosts>>
          ELSE \E err \in BOOLEAN :
                 IF err
                 THEN /\ Exit("yaml: unmarshal errors")
                      /\ varInputMap' = varInputMap
                 ELSE /\ \E answer \in Answers :
                           varInputMap' = ResolveInputs(r.map, inputs, answer)
                      /\ pc' = "loaded"
                      /\ UNCHANGED <<exitMsg, filteredHosts>>
    /\ UNCHANGED <<tasks, profile, hosts, response, wg, unit, panics, calls,
                   inputs, varsInput, registry>>

----
\* ExecutePlaybook, playbook.go:114-150

\* ExecutePlaybook is entered with the playbook LoadPlaybookFile returned;
\* the locals of LoadPlaybookFile are gone.
ExecutePlaybook ==
    /\ pc = "loaded"
    /\ pc' = "loop"
    /\ inputs' = <<>>
    /\ varsInput' = <<>>
    /\ varInputMap' = EmptyMap
    /\ UNCHANGED <<tasks, profile, filteredHosts, hosts, response, wg, unit,
                   panics, calls, exitMsg, registry>>

\* The range loop is exhausted: ExecutePlaybook returns.
EndOfPlaybook ==
    /\ pc = "loop"
    /\ pc' = "finished"
    /\ UNCHANGED <<tasks, profile, filteredHosts, hosts, response, wg, unit,
                   panics, calls, exitMsg>>
    /\ UNCHANGED <<LoadVars, registry>>

\* The type check left out: every task counts as typed.
HasType_Unchecked(t) == TRUE

\* The type check of playbook.go:117, false for an empty type.
HasType(t) == Len(t.Type) > 0

\* A filter that leaves out the task's host list.
TaskFilter_NoHostList(t) ==
    CreateFilter(t.ServiceFilter, t.ComponentFilter, "", t.AmbariServerFilter)

\* The filter of playbook.go:120, built from the task's targeting fields.
TaskFilter(t) ==
    CreateFilter(t.ServiceFilter, t.ComponentFilter, t.HostFilter, t.AmbariServerFilter)

\* One loop iteration up to the dispatch on task.Type: the type check and
\* the host resolution (playbook.go:116-122, 141-148).
NextTask(t) ==
    /\ pc = "loop"
    /\ Len(tasks) < MaxTasks
    /\ tasks' = Append(tasks, t)
    /\ IF HasType(t)
       THEN /\ IF ~t.AmbariAgentFilter
               THEN LET filter == TaskFilter(t)
                    IN \E hs \in GetFilteredHosts(filter) :
                         /\ filteredHosts' = hs
                         /\ calls' = Append(calls,
                               Call(Len(tasks) + 1, "GetFilteredHosts", filter, FALSE, FALSE))
               ELSE /\ filteredHosts' = {}
                    /\ calls' = calls
            /\ pc' = "dispatch"
            /\ exitMsg' = exitMsg
       ELSE /\ Exit("Type field for task is required!")
            /\ calls' = calls
    /\ UNCHANGED <<profile, hosts, response, wg, unit, panics>>
    /\ UNCHANGED <<LoadVars, registry>>

\* task.Type matches none of the six comparisons of playbook.go:123-140:
\* the iteration ends without calling an executor.
NoExecutor ==
    /\ pc = "dispatch"
    /\ task.Type \notin {RemoteCommand, LocalCommand, Download, Upload, Config, AmbariCommand}
    /\ Continue
    /\ UNCHANGED <<tasks, profile, hosts, response, wg, unit, panics, calls>>
    /\ UNCHANGED <<LoadVars, registry>>

\* Variables no executor of the control thread other than the remote one touches.
RemoteVars == <<hosts, response, wg, unit, panics>>

----
\* The command check left out: every task counts as having a command.
HasCommand_Unchecked(t) == TRUE

\* len(task.Command) > 0, playbook.go:154, 207, 241
HasCommand(t) == Len(t.Command) > 0

\* RunLocalCommand with the error of cmd.Run() printed and not acted on.
RunLocalCommand_ErrorIgnored(i) ==
    \E err \in BOOLEAN :
        /\ calls' = Append(calls,
              Plain(i, IF err THEN "RunLocalCommand:error" ELSE "RunLocalCommand"))
        /\ Continue

\* RunLocalCommand called for task i, local.go:27-46: cmd.Run() returns an
\* error (the command cannot be launched or exits non-zero) and the process
\* exits, or it returns nil and the function returns.
RunLocalCommand(i) ==
    \E err \in BOOLEAN :
        /\ calls' = Append(calls,
              Plain(i, IF err THEN "RunLocalCommand:error" ELSE "RunLocalCommand"))
        /\ IF err THEN Exit("exit status 1") ELSE Continue

\* ExecuteLocalCommandTask, playbook.go:240-250
ExecuteLocalCommandTask ==
    /\ pc = "dispatch"
    /\ task.Type = LocalCommand
    /\ IF HasCommand(task)
       THEN RunLocalCommand(idx)
       ELSE /\ Continue
            /\ calls' = calls
    /\ UNCHANGED <<tasks, profile>>
    /\ UNCHANGED RemoteVars
    /\ UNCHANGED <<LoadVars, registry>>

\* The message printed for a missing parameter, e.g. playbook.go:228
RequiredMsg(param, kind) ==
    "'" \o param \o "' parameter is required for '" \o kind \o "' task"

\* The parameter checks of ExecuteDownloadFileTask, playbook.go:254-274:
\* whether DownloadFile is called, and the message printed before os.Exit(1)
\* ("" when the function returns).
DownloadCheck(params) ==
    IF params = NilParams THEN [invoke |-> FALSE, msg |-> ""]
    ELSE LET haveUrl == "url" \in params
             haveFile == haveUrl /\ "file" \in params
         IN [invoke |-> haveFile,
             msg |-> IF ~haveFile THEN RequiredMsg("file", "Download")
                     ELSE IF ~haveUrl THEN RequiredMsg("url", "Download")
                     ELSE ""]

\* ExecuteDownloadFileTask, playbook.go:253-275.  DownloadFile (local.go:49-65)
\* returns an error or nil; the caller drops the returned value.
ExecuteDownloadFileTask ==
    /\ pc = "dispatch"
    /\ task.Type = Download
    /\ LET r == DownloadCheck(task.Parameters)
       IN /\ IF r.invoke
             THEN \E err \in BOOLEAN :
                     calls' = Append(calls,
                        Plain(idx, IF err THEN "DownloadFile:error" ELSE "DownloadFile"))
             ELSE calls' = calls
          /\ IF r.msg # "" THEN Exit(r.msg)
             ELSE Continue
    /\ UNCHANGED <<tasks, profile>>
    /\ UNCHANGED RemoteVars
    /\ UNCHANGED <<LoadVars, registry>>

\* The parameter checks of ExecuteUploadFileTask, playbook.go:215-236.
UploadCheck(params) ==
    IF params = NilParams THEN [invoke |-> FALSE, msg |-> ""]
    ELSE LET haveSourceFile == "source" \in params
             haveTargetFile == haveSourceFile /\ "target" \in params
         IN [invoke |-> haveTargetFile,
             msg |-> IF ~haveSourceFile THEN RequiredMsg("source", "Upload")
                     ELSE IF ~haveTargetFile THEN RequiredMsg("target", "Upload")
                     ELSE ""]

\* a.CopyToRemote(source, target, filteredHosts, server) called for task i:
\* the copy to every host of the set succeeds, or a transfer error ends the
\* process.
CopyToRemote(i) ==
    /\ calls' = Append(calls, Plain(i, "CopyToRemote"))
    /\ \E err \in BOOLEAN :
         IF err THEN Exit("Can't copy to remote")
         ELSE Continue

\* ExecuteUploadFileTask, playbook.go:214-237
ExecuteUploadFileTask ==
    /\ pc = "dispatch"
    /\ task.Type = Upload
    /\ LET r == UploadCheck(task.Parameters)
       IN IF r.invoke THEN CopyToRemote(idx)
          ELSE /\ calls' = calls
               /\ IF r.msg # "" THEN Exit(r.msg)
                  ELSE Continue
    /\ UNCHANGED <<tasks, profile>>
    /\ UNCHANGED RemoteVars
    /\ UNCHANGED <<LoadVars, registry>>

\* The parameter checks of ExecuteConfigCommand, playbook.go:176-202.
ConfigCheck(params) ==
    IF params = NilParams THEN [invoke |-> FALSE, msg |-> ""]
    ELSE LET haveConfigType == "config_type" \in params
             haveConfigKey == haveConfigType /\ "config_key" \in params
             haveConfigValue == haveConfigKey /\ "config_value" \in params
         IN [invoke |-> haveConfigValue,
             msg |-> IF ~haveConfigType THEN RequiredMsg("config_type", "Upload")
                     ELSE IF ~haveConfigKey THEN RequiredMsg("config_key", "Upload")
                     ELSE IF ~haveConfigValue THEN RequiredMsg("config_value", "Upload")
                     ELSE ""]

\* ExecuteConfigCommand, playbook.go:175-203
ExecuteConfigCommand ==
    /\ pc = "dispatch"
    /\ task.Type = Config
    /\ LET r == ConfigCheck(task.Parameters)
       IN /\ calls' = IF r.invoke THEN Append(calls, Plain(idx, "SetConfig")) ELSE calls
          /\ IF r.msg # "" THEN Exit(r.msg)
             ELSE Continue
    /\ UNCHANGED <<tasks, profile>>
    /\ UNCHANGED RemoteVars
    /\ UNCHANGED <<LoadVars, registry>>

\* ExecuteAmbariCommand with "if" in place of the "else if" of playbook.go:159:
\* the service path is taken whenever a service filter is set.
AmbariCalls_BothPaths(i, t) ==
    IF Len(t.Command) > 0
    THEN LET useComponentFilter == Len(t.ComponentFilter) > 0
             useServiceFilter == Len(t.ServiceFilter) > 0
         IN (IF useComponentFilter
             THEN <<Call(i, "RunAmbariServiceCommand",
                         CreateFilter("", t.ComponentFilter, "", FALSE),
                         useServiceFilter, useComponentFilter)>>
             ELSE <<>>)
            \o
            (IF useServiceFilter
             THEN <<Call(i, "RunAmbariServiceCommand",
                         CreateFilter(t.ServiceFilter, "", "", FALSE),
                         useServiceFilter, useComponentFilter)>>
             ELSE <<>>)
    ELSE <<>>

\* The RunAmbariServiceCommand calls of ExecuteAmbariCommand for a task, in
\* order (playbook.go:154-171).
AmbariCalls(i, t) ==
    IF HasCommand(t)
    THEN LET useComponentFilter == Len(t.ComponentFilter) > 0
             useServiceFilter == ~useComponentFilter /\ Len(t.ServiceFilter) > 0
         IN (IF useComponentFilter
             THEN <<Call(i, "RunAmbariServiceCommand",
                         CreateFilter("", t.ComponentFilter, "", FALSE),
                         useServiceFilter, useComponentFilter)>>
             ELSE <<>>)
            \o
            (IF useServiceFilter
             THEN <<Call(i, "RunAmbariServiceCommand",
                         CreateFilter(t.ServiceFilter, "", "", FALSE),
                         useServiceFilter, useComponentFilter)>>
             ELSE <<>>)
    ELSE <<>>

\* ExecuteAmbariCommand, playbook.go:153-172
ExecuteAmbariCommand ==
    /\ pc = "dispatch"
    /\ task.Type = AmbariCommand
    /\ calls' = calls \o AmbariCalls(idx, task)
    /\ Continue
    /\ UNCHANGED <<tasks, profile>>
    /\ UNCHANGED RemoteVars
    /\ UNCHANGED <<LoadVars, registry>>

----
\* RunRemoteHostCommand, ssh.go:33-79

\* hosts of ssh.go:40-45: the set handed in, or every host of the cluster
\* when that set is empty.
TargetHosts(fh) ==
    IF Cardinality(fh) > 0 THEN fh ELSE CHOOSE hs \in GetFilteredHosts(EmptyFilter) : TRUE

\* wg.Add with a count that is one short.
WgAdd_OneShort(hs) == IF hs = {} THEN 0 ELSE Cardinality(hs) - 1

\* wg.Add(len(hosts)), ssh.go:48
WgAdd(hs) == Cardinality(hs)

\* The profile check left out: every entry counts as having a profile.
NoProfile_Unchecked(p) == FALSE

\* No connection profile is attached to the active entry (ssh.go:34).
NoProfile(p) == Len(p) = 0

\* ExecuteRemoteCommandTask, playbook.go:206-211, entering
\* RunRemoteHostCommand up to wg.Add (ssh.go:34-48).
ExecuteRemoteCommandTask ==
    /\ pc = "dispatch"
    /\ task.Type = RemoteCommand
    /\ IF HasCommand(task)
       THEN IF NoProfile(profile)
            THEN /\ Exit("No connection profile is attached for the active ambari server entry!")
                 /\ calls' = Append(calls, Plain(idx, "RunRemoteHostCommand"))
                 /\ UNCHANGED <<hosts, response, wg>>
            ELSE /\ hosts' = TargetHosts(filteredHosts)
                 /\ calls' = calls
                       \o <<Plain(idx, "RunRemoteHostCommand")>>
                       \o (IF Cardinality(filteredHosts) > 0 THEN <<>>
                           ELSE <<Plain(idx, "GetFilteredHosts:executor")>>)
                 /\ response' = {}
                 /\ wg' = WgAdd(hosts')
                 /\ pc' = IF hosts' = {} THEN "wait" ELSE "launch"
                 /\ UNCHANGED <<exitMsg, filteredHosts>>
       ELSE /\ Continue
            /\ UNCHANGED <<hosts, response, wg, calls>>
    /\ UNCHANGED <<tasks, profile, unit, panics>>
    /\ UNCHANGED <<LoadVars, registry>>

\* One iteration of the range loop of ssh.go:49-76: the goroutine for host
\* h is started.  After the last iteration the control thread is at wg.Wait().
Launch(h) ==
    /\ pc = "launch"
    /\ h \in hosts
    /\ unit[idx][h] = "none"
    /\ unit' = [unit EXCEPT ![idx][h] = "running"]
    /\ pc' = IF \A g \in hosts \ {h} : unit[idx][g] # "none" THEN "wait" ELSE "launch"
    /\ UNCHANGED <<tasks, profile, filteredHosts, hosts, response, wg,
                   panics, calls, exitMsg>>
    /\ UNCHANGED <<LoadVars, registry>>

\* A goroutine that leaves without calling wg.Done().
WgDone_Missing(n) == n

\* The deferred wg.Done() of ssh.go:58 on counter n.
WgDone(n) == n - 1

\* A goroutine is inside the assignment response[host] = ... (ssh.go:73).
InMapWrite(i, h) == unit[i][h] \in {"writing", "racing"}

\* ssh.Run returned without error (ssh.go:59-72): the goroutine of task i
\* for host h starts the map assignment of ssh.go:73.  Nothing orders it
\* against the assignments of the other goroutines; the ones that overlap
\* are marked as racing.
BeginMapWrite(i, h) ==
    /\ Alive
    /\ unit[i][h] = "running"
    /\ unit' = [unit EXCEPT ![i] =
                 [g \in Hosts |->
                    IF \E o \in Hosts \ {h} : InMapWrite(i, o)
                    THEN (IF g = h \/ InMapWrite(i, g) THEN "racing" ELSE unit[i][g])
                    ELSE (IF g = h THEN "writing" ELSE unit[i][g])]]
    /\ UNCHANGED <<tasks, pc, profile, filteredHosts, hosts, response, wg,
                   panics, calls, exitMsg>>
    /\ UNCHANGED <<LoadVars, registry>>

\* response[host] = RemoteResponse{...} for map m: host h has an entry.
MapAssign(m, h) == m \cup {h}

\* The map assignment of ssh.go:73 completes and the deferred wg.Done()
\* runs (ssh.go:58).  An assignment that overlapped another one is a data
\* race on the map: the entry is stored or it is lost.
EndMapWrite(i, h) ==
    /\ Alive
    /\ InMapWrite(i, h)
    /\ \/ response' = MapAssign(response, h)
       \/ unit[i][h] = "racing" /\ response' = response
    /\ unit' = [unit EXCEPT ![i][h] = "done"]
    /\ wg' = WgDone(wg)
    /\ UNCHANGED <<tasks, pc, profile, filteredHosts, hosts,
                   panics, calls, exitMsg>>
    /\ UNCHANGED <<LoadVars, registry>>

\* The runtime notices the overlapping assignments and ends the process
\* with "fatal error: concurrent map writes".
ConcurrentMapWrites ==
    /\ Alive
    /\ \E i \in 1..MaxTasks, h \in Hosts : unit[i][h] = "racing"
    /\ pc' = "crashed"
    /\ UNCHANGED <<tasks, profile, filteredHosts, hosts, response, wg, unit,
                   panics, calls, exitMsg>>
    /\ UNCHANGED <<LoadVars, registry>>

\* ssh.Run returned an error: panic (ssh.go:63-64).  The panic first runs
\* the deferred wg.Done() of ssh.go:58; the process ends afterwards.
RunError(i, h) ==
    /\ Alive
    /\ unit[i][h] = "running"
    /\ unit' = [unit EXCEPT ![i][h] = "panicked"]
    /\ panics' = panics \cup {i}
    /\ wg' = WgDone(wg)
    /\ UNCHANGED <<tasks, pc, profile, filteredHosts, hosts, response,
                   calls, exitMsg>>
    /\ UNCHANGED <<LoadVars, registry>>

\* The unrecovered panic of a goroutine ends the process.
PanicExit ==
    /\ Alive
    /\ panics # {}
    /\ pc' = "crashed"
    /\ UNCHANGED <<tasks, profile, filteredHosts, hosts, response, wg, unit,
                   panics, calls, exitMsg>>
    /\ UNCHANGED <<LoadVars, registry>>

\* A barrier that opens while one goroutine has not reported.
WaitDone_OneLeft == wg <= 1

\* The WaitGroup counter is zero.
WaitDone == wg = 0

\* wg.Wait() returns and RunRemoteHostCommand returns response
\* (ssh.go:77-78).
Wait ==
    /\ pc = "wait"
    /\ WaitDone
    /\ pc' = "returned"
    /\ UNCHANGED <<tasks, profile, filteredHosts, hosts, response, wg, unit,
                   panics, calls, exitMsg>>
    /\ UNCHANGED <<LoadVars, registry>>

\* ExecuteRemoteCommandTask drops the returned map and returns
\* (playbook.go:209-211): the locals of the call and the goroutines that
\* have ended are gone, and the loop of ExecutePlaybook goes on.
Return ==
    /\ pc = "returned"
    /\ Continue
    /\ hosts' = {}
    /\ response' = {}
    /\ wg' = 0
    /\ unit' = [unit EXCEPT ![idx] =
                 [h \in Hosts |->
                    IF unit[idx][h] \in {"done", "panicked"} THEN "none" ELSE unit[idx][h]]]
    /\ UNCHANGED <<tasks, profile, panics, calls>>
    /\ UNCHANGED <<LoadVars, registry>>

\* The steps of ExecutePlaybook and of the goroutines it starts
Run ==
    \/ EndOfPlaybook
    \/ \E t \in TaskSet : NextTask(t)
    \/ NoExecutor
    \/ ExecuteLocalCommandTask
    \/ ExecuteDownloadFileTask
    \/ ExecuteUploadFileTask
    \/ ExecuteConfigCommand
    \/ ExecuteAmbariCommand
    \/ ExecuteRemoteCommandTask
    \/ \E h \in Hosts : Launch(h)
    \/ \E i \in 1..MaxTasks, h \in Hosts : BeginMapWrite(i, h)
    \/ \E i \in 1..MaxTasks, h \in Hosts : EndMapWrite(i, h)
    \/ ConcurrentMapWrites
    \/ \E i \in 1..MaxTasks, h \in Hosts : RunError(i, h)
    \/ PanicExit
    \/ Wait
    \/ Return

Next ==
    \/ LoadPlaybookFile
    \/ ExecutePlaybook
    \/ Run

Spec == Init /\ [][Next]_vars

\* The run with scheduling: once ExecutePlaybook is entered, a step that can
\* be taken is taken in the end (the control thread goes on, ssh.Run returns
\* within its timeout and a started goroutine gets to run).  Nothing of the
\* kind is assumed of LoadPlaybookFile, which waits for the user.
FairSpec == Spec /\ WF_vars(Run)

----
\* The registry commands, registry.go.  Each command is one run of the
\* program on the table the earlier runs left.

\* Everything but the table and the message of the run
NotRegistry == <<tasks, pc, profile, filteredHosts, hosts, response, wg, unit,
                 panics, calls, inputs, varsInput, varInputMap>>

\* The row inserted by RegisterNewAmbariEntry, registry.go:91-92
Entry(id, cluster) == [id |-> id, cluster |-> cluster, active |-> 1]

\* "SELECT id FROM ambari_registry WHERE id = ...", registry.go:77
HasId(reg, id) == \E k \in 1..Len(reg) : reg[k].id = id

\* The INSERT of registry.go:91-92: the new row, active, after the others.
Insert(reg, id, cluster) == Append(reg, Entry(id, cluster))

\* RegisterNewAmbariEntry, registry.go:73-94
RegisterNewAmbariEntry(id, cluster) ==
    /\ IF HasId(registry, id)
       THEN /\ exitMsg' = "Registry with id is already defined as a registry entry"
            /\ registry' = registry
       ELSE /\ exitMsg' = ""
            /\ registry' = Insert(registry, id, cluster)
    /\ UNCHANGED NotRegistry

\* DropAmbariRegistryRecords, registry.go:37-45
DropAmbariRegistryRecords ==
    /\ registry' = <<>>
    /\ exitMsg' = ""
    /\ UNCHANGED NotRegistry

\* The rows "WHERE active = '1'" selects, registry.go:100
ActiveRows(reg) == {k \in 1..Len(reg) : reg[k].active = 1}

\* GetActiveAmbari, registry.go:96-116: every selected row is scanned into
\* the same variables, so the last one stays; with no row the id keeps its
\* zero value.
GetActiveAmbari(reg) ==
    IF ActiveRows(reg) = {} THEN 0
    ELSE reg[CHOOSE k \in ActiveRows(reg) : \A l \in ActiveRows(reg) : l <= k].id

InitRegistry ==
    /\ registry = <<>>
    /\ exitMsg = ""
    /\ pc = "registry"
    /\ tasks = <<>>
    /\ profile = ""
    /\ filteredHosts = {}
    /\ hosts = {}
    /\ response = {}
    /\ wg = 0
    /\ unit = [i \in 1..MaxTasks |-> [h \in Hosts |-> "none"]]
    /\ panics = {}
    /\ calls = <<>>
    /\ inputs = <<>>
    /\ varsInput = <<>>
    /\ varInputMap = EmptyMap

NextRegistry ==
    \/ \E id \in RegistryIds, cluster \in Clusters : RegisterNewAmbariEntry(id, cluster)
    \/ DropAmbariRegistryRecords

RegistrySpec == InitRegistry /\ [][NextRegistry]_vars

----
\* Properties

CallIdx == 1..Len(calls)

\* The goroutine of task i for host h has been started and has not left its
\* function.
Unfinished(i, h) == unit[i][h] \in {"running", "writing", "racing"}

\* C1: whenever RunRemoteHostCommand has returned for a task, the returned
\* map has exactly one entry for each host of the HostSet the task was
\* dispatched against (also for the empty HostSet).
C1_OneResultPerTargetedHost ==
    pc = "returned" => response = filteredHosts

\* C2: during a call goroutines exist for hosts of the call only; when the
\* control thread is at wg.Wait() every host of the call has its goroutine
\* started; and once RunRemoteHostCommand has returned none of the
\* goroutines is still unfinished (each has stored its result or has
\* panicked and run its deferred wg.Done()).
C2_NoReturnBeforeAllUnitsFinish ==
    /\ pc \in {"launch", "wait", "returned"} =>
          /\ hosts = TargetHosts(filteredHosts)
          /\ \A h \in Hosts : unit[idx][h] # "none" => h \in hosts
    /\ pc = "wait" => \A h \in hosts : unit[idx][h] # "none"
    /\ pc = "returned" => \A h \in hosts : unit[idx][h] \in {"done", "panicked"}

\* C2 witness: a call over two or more hosts has returned after all its
\* goroutines stored their result.
C2_Witness ==
    /\ pc = "returned"
    /\ Cardinality({h \in hosts : unit[idx][h] = "done"}) >= 2

\* C3: the control thread's calls are in playbook order; once the loop has
\* reached a later task no goroutine of an earlier task is unfinished; tasks
\* not reached yet have no goroutine: the unfinished goroutines all belong to
\* the current task.
C3_TasksInOrderNoOverlap ==
    /\ \A k, l \in CallIdx : k < l => calls[k].task <= calls[l].task
    /\ \A i, j \in 1..Len(tasks) : i < j => \A h \in Hosts : ~Unfinished(i, h)
    /\ \A i \in 1..MaxTasks : i > Len(tasks) => \A h \in Hosts : unit[i][h] = "none"

\* C3 witness: a second remote task has its goroutines running, two or
\* more of them, after the fan-out of the first remote task over all hosts
\* of the cluster has returned without a transport error.
C3_Witness ==
    /\ Len(tasks) = 2
    /\ tasks[1].Type = RemoteCommand
    /\ \E k \in CallIdx : calls[k].task = 1 /\ calls[k].op = "GetFilteredHosts:executor"
    /\ \A h \in Hosts : unit[1][h] = "none"
    /\ panics = {}
    /\ Cardinality({h \in Hosts : unit[2][h] = "running"}) >= 2

\* C4: once the transport has reported an error for a host of task i (its
\* goroutine panics), no host resolution and no executor call is ever made
\* for a task after i.
C4_TransportErrorStopsLaterTasks ==
    \A i \in panics : \A k \in CallIdx : calls[k].task <= i

RecognizedTypes == {RemoteCommand, LocalCommand, Download, Upload, Config, AmbariCommand}

\* C6: a task with a non-empty type outside the six recognized kinds stops
\* the run: the loop never goes on to a later task nor finishes normally.
C6_UnknownTypeAborts ==
    \A i \in 1..Len(tasks) :
        (tasks[i].Type # "" /\ tasks[i].Type \notin RecognizedTypes) =>
            /\ Len(tasks) = i
            /\ pc \notin {"loop", "finished"}

\* Required parameters per task type
Required(type) ==
    IF type = Upload THEN {"source", "target"}
    ELSE IF type = Download THEN {"url", "file"}
    ELSE IF type = Config THEN {"config_type", "config_key", "config_value"}
    ELSE {}

MissingRequired(t) ==
    /\ t.Type \in {Upload, Download, Config}
    /\ ~(Required(t.Type) \subseteq t.Parameters)

TransferOps == {"CopyToRemote", "DownloadFile", "DownloadFile:error", "SetConfig"}

\* C7: an Upload, Download or Config task with a required parameter missing
\* (a nil parameter map included) never has its transfer or configuration
\* call made, and once its executor has run the process has exited and no
\* later task is read.
C7_MissingParameterAborts ==
    \A i \in 1..Len(tasks) :
        MissingRequired(tasks[i]) =>
            /\ \A k \in CallIdx : calls[k].task = i => calls[k].op \notin TransferOps
            /\ Len(tasks) = i
            /\ pc \in {"dispatch", "exited", "crashed"}

\* C8: when the run exits in an Upload, Download or Config task whose
\* parameter map lacks exactly one required key, the message printed names
\* that key.
C8_MessageNamesMissingParameter ==
    (/\ pc = "exited"
     /\ Len(tasks) > 0
     /\ task.Type \in {Upload, Download, Config}
     /\ task.Parameters # NilParams)
    => \A key \in Required(task.Type) :
          Required(task.Type) \ task.Parameters = {key} =>
             \E kind \in {"Upload", "Download", "Config"} : exitMsg = RequiredMsg(key, kind)

\* C9: no two goroutines of a fan-out are inside the assignment into the
\* response map at the same time.
C9_MapWritesGuarded ==
    \A i \in 1..MaxTasks : \A g, h \in Hosts :
        (InMapWrite(i, g) /\ InMapWrite(i, h)) => g = h

\* The lifecycle calls logged for task i
LifecycleCalls(i) ==
    {k \in CallIdx : calls[k].task = i /\ calls[k].op = "RunAmbariServiceCommand"}

\* C10: an AmbariCommand task makes at most one RunAmbariServiceCommand
\* call; in each call exactly one of isService / isComponent is true; a task
\* with a component filter makes the component call only, with a filter
\* built from the component filter alone.
C10_OneLifecycleCall ==
    \A i \in 1..Len(tasks) :
        tasks[i].Type = AmbariCommand =>
            /\ Cardinality(LifecycleCalls(i)) <= 1
            /\ \A k \in LifecycleCalls(i) :
                  /\ calls[k].isService # calls[k].isComponent
                  /\ tasks[i].ComponentFilter # "" =>
                        /\ calls[k].isComponent
                        /\ calls[k].filter = CreateFilter("", tasks[i].ComponentFilter, "", FALSE)

\* C10 witness: a task with both a component and a service filter has made
\* its call.
C10_Witness ==
    \E i \in 1..Len(tasks) :
        /\ tasks[i].Type = AmbariCommand
        /\ tasks[i].ComponentFilter # ""
        /\ tasks[i].ServiceFilter # ""
        /\ LifecycleCalls(i) # {}

\* C11: once DownloadFile has failed for a Download task (os.Create,
\* http.Get or io.Copy returned an error), no task after that task is read
\* and the run does not reach its normal end.
C11_DownloadFailureAborts ==
    \A k \in CallIdx :
        calls[k].op = "DownloadFile:error" =>
            /\ Len(tasks) = calls[k].task
            /\ pc \notin {"loop", "finished"}

\* C12: once RunLocalCommand has failed for a LocalCommand task (the
\* command could not be launched or exited non-zero), the process has
\* exited in that task: the failed call is the last call made, no later task
\* is read and no goroutine of a later task exists.
C12_LocalFailureAborts ==
    \A k \in CallIdx :
        calls[k].op = "RunLocalCommand:error" =>
            /\ pc = "exited"
            /\ k = Len(calls)
            /\ Len(tasks) = calls[k].task
            /\ \A i \in 1..MaxTasks : \A h \in Hosts :
                  i >= calls[k].task => unit[i][h] = "none"

\* C12 witness: the local command of the second task has failed after the
\* first task made a call.
C12_Witness ==
    /\ Len(tasks) = 2
    /\ Len(calls) >= 2
    /\ calls[1].task = 1
    /\ calls[Len(calls)] = Plain(2, "RunLocalCommand:error")
    /\ exitMsg = "exit status 1"

\* C13: with no connection profile attached to the active entry, no
\* goroutine is ever started and the executor never asks for the hosts of the
\* cluster; once RunRemoteHostCommand has been called the process has
\* exited, that call is the last call made and no later task is read.
C13_NoProfileIsFatal ==
    profile = "" =>
        /\ \A i \in 1..MaxTasks : \A h \in Hosts : unit[i][h] = "none"
        /\ pc \notin {"launch", "wait", "returned"}
        /\ \A k \in CallIdx :
              /\ calls[k].op # "GetFilteredHosts:executor"
              /\ calls[k].op = "RunRemoteHostCommand" =>
                    /\ pc = "exited"
                    /\ k = Len(calls)
                    /\ Len(tasks) = calls[k].task

\* C13 witness: without a profile, the second task has called
\* RunRemoteHostCommand for a non-empty HostSet, after a first task that
\* made a call.
C13_Witness ==
    /\ profile = ""
    /\ Len(tasks) = 2
    /\ Len(calls) >= 3
    /\ calls[1].task = 1
    /\ calls[Len(calls)] = Plain(2, "RunRemoteHostCommand")
    /\ filteredHosts # {}
    /\ pc = "exited"

\* The host resolutions the dispatcher made for task i
Resolutions(i) ==
    {k \in CallIdx : calls[k].task = i /\ calls[k].op = "GetFilteredHosts"}

\* C14: for every typed task that is not agent-only the dispatcher has made
\* exactly one host resolution, before every other call of the task, with
\* the filter made of the task's own service, component, host and server
\* fields, and the set the executor works with is a result of that
\* resolution; for an agent-only task the dispatcher makes no resolution
\* and the executor is handed the empty set.
C14_HostSetFreshPerTask ==
    \A i \in 1..Len(tasks) :
        tasks[i].Type # "" =>
            LET executing == i = idx /\ pc \in {"dispatch", "launch", "wait", "returned"}
            IN IF tasks[i].AmbariAgentFilter
               THEN /\ Resolutions(i) = {}
                    /\ executing => filteredHosts = {}
               ELSE /\ Cardinality(Resolutions(i)) = 1
                    /\ \A k \in Resolutions(i) :
                          /\ calls[k].filter =
                                CreateFilter(tasks[i].ServiceFilter, tasks[i].ComponentFilter,
                                             tasks[i].HostFilter, tasks[i].AmbariServerFilter)
                          /\ \A l \in CallIdx : calls[l].task = i => k <= l
                          /\ executing => filteredHosts \in GetFilteredHosts(calls[k].filter)

\* C14 witness: a task with a host list is about to be executed with the
\* set resolved for it, after a task with a component filter whose command
\* ran on the hosts resolved for that one.
C14_Witness ==
    /\ Len(tasks) = 2
    /\ pc = "dispatch"
    /\ tasks[1].ComponentFilter = "C" /\ ~tasks[1].AmbariAgentFilter
    /\ tasks[2].HostFilter = "host1"
    /\ filteredHosts = {1}
    /\ Len(calls) = 3
    /\ calls[1].filter.Component = "C"
    /\ calls[2] = Plain(1, "RunRemoteHostCommand")
    /\ calls[3].filter.Hosts = "host1"

\* The value in varInputMap for declared input k is the one the resolution
\* rule gives: the supplied value of its name if there is one, else its
\* non-empty default, else what the user typed.
ResolvedByRule(k) ==
    LET name == inputs[k].Name
        supplied == createVarMap(varsInput).map
    IN /\ name \in DOMAIN varInputMap
       /\ IF name \in DOMAIN supplied THEN varInputMap[name] = supplied[name]
          ELSE IF inputs[k].Default # "" THEN varInputMap[name] = inputs[k].Default
          ELSE varInputMap[name] \in Answers

\* While LoadPlaybookFile has not returned its playbook to ExecutePlaybook,
\* no task has been read, no call made and no goroutine started.
NothingRunWhileLoading ==
    pc \in {"load", "loaded"} =>
        /\ tasks = <<>>
        /\ calls = <<>>
        /\ \A i \in 1..MaxTasks : \A h \in Hosts : unit[i][h] = "none"

\* C15 as stated: when LoadPlaybookFile returns, every declared input has
\* the value the resolution rule gives, and nothing has run before that.
C15_EveryInputResolvedByRule ==
    /\ NothingRunWhileLoading
    /\ pc = "loaded" => \A k \in 1..Len(inputs) : ResolvedByRule(k)

\* C15: when LoadPlaybookFile returns, every declared input whose name no
\* earlier input of the list declares has the value the resolution rule
\* gives, a name declared again keeps that value, and nothing has run
\* before that.
C15_FirstDeclarationResolvedByRule ==
    /\ NothingRunWhileLoading
    /\ pc = "loaded" =>
          \A k \in 1..Len(inputs) :
              /\ inputs[k].Name \in DOMAIN varInputMap
              /\ (\A j \in 1..(k - 1) : inputs[j].Name # inputs[k].Name) => ResolvedByRule(k)

\* C15 witness: LoadPlaybookFile has returned for a name declared twice,
\* first without and then with a default, and not supplied, while another
\* name was supplied.
C15_Witness ==
    /\ pc = "loaded"
    /\ Len(inputs) = 2
    /\ inputs[1] = Input("A", "")
    /\ inputs[2] = Input("A", "d")
    /\ DOMAIN varInputMap = {"A", "B"}
    /\ varInputMap["A"] = "typed"
    /\ varInputMap["B"] = "s"

\* Every goroutine of the current RunRemoteHostCommand call has stored its
\* result and reported to the WaitGroup, and no panic is pending.
AllReported ==
    /\ pc = "wait"
    /\ panics = {}
    /\ \A h \in hosts : unit[idx][h] = "done"

\* C16: a RunRemoteHostCommand call that has started launching its
\* goroutines returns in the end unless the process is ended by a transport
\* error or by the runtime; and once all its goroutines have reported
\* without a transport error, it does return.
C16_BarrierOpens ==
    /\ (pc \in {"launch", "wait"}) ~> (pc \in {"returned", "crashed"})
    /\ AllReported ~> (pc = "returned")

\* C16 witness: the control thread is at the barrier and the goroutines of
\* all hosts of the cluster have reported.
C16_Witness ==
    /\ AllReported
    /\ hosts = Hosts
    /\ wg = 0

\* C17: while RunRemoteHostCommand runs for a task the dispatcher resolved
\* a HostSet for, every goroutine started belongs to a host of that set; with
\* an empty set no goroutine is started.
C17_CommandOnlyOnResolvedHosts ==
    (/\ pc \in {"launch", "wait", "returned"}
     /\ ~task.AmbariAgentFilter)
    => \A h \in Hosts : unit[idx][h] # "none" => h \in filteredHosts

\* C18: at most one row of the registry is active, and GetActiveAmbari
\* returns the id of every active row.
C18_AtMostOneActiveEntry ==
    /\ Cardinality(ActiveRows(registry)) <= 1
    /\ \A k \in ActiveRows(registry) : GetActiveAmbari(registry) = registry[k].id

\* A task whose executor has nothing to do: a RemoteCommand or LocalCommand
\* task without a command, an AmbariCommand task without a command or
\* without both a component and a service filter.
NothingToDo(t) ==
    \/ t.Type \in {RemoteCommand, LocalCommand} /\ t.Command = ""
    \/ /\ t.Type = AmbariCommand
       /\ t.Command = "" \/ (t.ComponentFilter = "" /\ t.ServiceFilter = "")

\* The calls the executors make
ExecutorOps ==
    {"RunRemoteHostCommand", "GetFilteredHosts:executor", "RunLocalCommand",
     "RunLocalCommand:error", "RunAmbariServiceCommand"} \cup TransferOps

Terminal == pc \in {"finished", "exited", "crashed"}

\* C20, the state a run ends in: a run that returned from ExecutePlaybook
\* has no transport error behind it and no goroutine left; in a run that
\* was ended, the task with the transport error is the last task read.
C20_EndsCompletedOrHaltedAtAbort ==
    /\ pc = "finished" =>
          /\ panics = {}
          /\ \A i \in 1..MaxTasks : \A h \in Hosts : ~Unfinished(i, h)
    /\ pc \in {"exited", "crashed"} => \A i \in panics : Len(tasks) = i

\* C20, termination: once ExecutePlaybook is entered the run ends.
C20_RunTerminates == (pc = "loop") ~> Terminal

====
